---- MODULE Spec2Model ----
(***************************************************************************)
(* Model of homebridge-button-platform: the ButtonPlatform registry        *)
(* (configureAccessory / discoverDevices), its express router (setupRoute)  *)
(* and the per-device handle ButtonPlatformAccessory (triggerEvent /        *)
(* updateBattery).                                                          *)
(*                                                                          *)
(* Strings the code inspects character by character (button names, the      *)
(* button-battery-level header) are sequences of one-character strings.     *)
(* An optional value (a missing query parameter, an undefined argument) is  *)
(* the empty sequence <<>>, a present value v is <<v>>.  JavaScript numbers  *)
(* are integers counted in tenths (14.9 is 149), NaN is a value of its own. *)
(***************************************************************************)
EXTENDS Integers, Sequences, FiniteSets, TLC

\* ------------------------------------------------------------------ bounds
\* longest configured button list
MaxButtons == 2
\* how many times discoverDevices is called on one platform object (SpecTwice)
MaxRuns == 2
\* how many requests may have arrived without their handler having run (SpecConcurrent)
MaxInflight == 2

\* ------------------------------------------------------- program constants
\* private batteryLevel = 100
DefaultBatteryLevel == 100
\* updateBattery: Math.max(0, Math.min(100, ...)) and batteryLevel < 15
ClampMin == 0
ClampMax == 100
LowBatteryThreshold == 15
\* handleStatusLowBatteryGet: this.batteryLevel < 15
ReadLowBatteryThreshold == 15
\* setupRoute: isInt({ min: 0, max: 100 })
HeaderMin == 0
HeaderMax == 100

\* ------------------------------------------------------------ option values
None == <<>>
Some(v) == <<v>>
IsSome(o) == o # <<>>
Get(o) == o[1]

\* --------------------------------------------------------------- characters
DigitChars == <<"0", "1", "2", "3", "4", "5", "6", "7", "8", "9">>
Digits == {DigitChars[i] : i \in 1..10}
DigitVal(c) == (CHOOSE i \in 1..10 : DigitChars[i] = c) - 1

\* String.prototype.toLowerCase, one character
ToLowerChar(c) ==
  CASE c = "A" -> "a"
    [] c = "B" -> "b"
    [] c = "Z" -> "z"
    [] OTHER -> c

LowerAlnum == {"a", "b", "z"} \cup Digits
UpperAlnum == {"A", "B", "Z"}

\* one character of replace(/[^a-z0-9]/giu, '-'): with the i flag the class
\* [a-z0-9] also covers the upper-case letters
ReplaceChar(c) == IF c \in LowerAlnum \cup UpperAlnum THEN c ELSE "-"

UriPrefix == "/button-"

generateButtonUri(buttonName) ==
  <<UriPrefix>> \o [i \in 1..Len(buttonName) |-> ReplaceChar(ToLowerChar(buttonName[i]))]

\* api.hap.uuid.generate: a deterministic, collision-free digest of the name,
\* here the name read as a numeral in base CodeBase
CharCode(c) ==
  CASE c = "A" -> 1
    [] c = "a" -> 2
    [] c = "B" -> 3
    [] c = "b" -> 4
    [] c = "!" -> 5
    [] OTHER -> 6
CodeBase == 7

RECURSIVE generate(_)
generate(name) ==
  IF name = <<>> THEN 0
  ELSE CharCode(Head(name)) + CodeBase * generate(Tail(name))

\* --------------------------------------------------------------- the inputs
Names == {<<"A">>, <<"a">>, <<"B", "!">>}

RECURSIVE SeqsUpTo(_, _)
SeqsUpTo(S, n) ==
  IF n = 0 THEN {<<>>}
  ELSE LET shorter == SeqsUpTo(S, n - 1)
       IN  shorter \cup {Append(s, x) : s \in shorter, x \in S}

ButtonLists == SeqsUpTo(Names, MaxButtons)

\* a record the framework persisted in an earlier run (platform.ts:77-78)
CachedAccessory(name) ==
  [UUID |-> generate(name), displayName |-> name, context |-> Some(name)]

\* the persisted sets, each in one fixed order, without duplicate UUIDs
CachedLists ==
  { <<>>,
    <<CachedAccessory(<<"A">>)>>,
    <<CachedAccessory(<<"A">>), CachedAccessory(<<"a">>)>>,
    <<CachedAccessory(<<"a">>), CachedAccessory(<<"B", "!">>), CachedAccessory(<<"A">>)>> }

\* -------------------------------------------------------------------- state
VARIABLES
  buttons,            \* ButtonPlatform.buttons: the configured names, in order
  cached,             \* the persisted records the framework has not yet handed over
  accessories,        \* ButtonPlatform.accessories
  accessoryHandlers,  \* ButtonPlatform.accessoryHandlers: UUID -> handle
  pc,                 \* position of the platform in its start-up
  runs,               \* completed calls of discoverDevices
  registered,         \* api.registerPlatformAccessories calls of the latest run
  updated,            \* api.updatePlatformAccessories calls of the latest run
  unregistered,       \* api.unregisterPlatformAccessories calls of the latest run
  constructed,        \* new ButtonPlatformAccessory(...) calls of the latest run
  routes,             \* the express route table, in registration order
  server,             \* the http.Server behind app.listen
  phase,              \* position of the request being dispatched
  req,                \* the request being dispatched
  res,                \* the status of its response (0: nothing sent yet)
  calls,              \* triggerEvent invocations made for it
  sent,               \* sendEventNotification calls made for it
  pending,            \* requests that have arrived and await their handler
  serverErrors        \* what the server's 'error' listener has logged

vars == <<buttons, cached, accessories, accessoryHandlers, pc, runs, registered,
          updated, unregistered, constructed, routes, server, phase, req, res,
          calls, sent, pending, serverErrors>>

platformVars == <<buttons, cached, accessories, accessoryHandlers, pc, runs,
                  registered, updated, unregistered, constructed>>
requestVars == <<phase, req, res, calls, sent, pending>>

\* --------------------------------------------------------------- the handle
\* new ButtonPlatformAccessory(platform, accessory): batteryLevel = 100 and
\* nothing written yet to the two battery characteristics
NewHandler(uuid) ==
  [UUID |-> uuid, batteryLevel |-> DefaultBatteryLevel,
   pushedLevel |-> None, pushedLow |-> None]

\* ------------------------------------------------------------- the registry
\* accessories.find(accessory => accessory.UUID === uuid): index of the first
\* match, 0 when there is none
FindAccessory(accs, uuid) ==
  IF \E i \in 1..Len(accs) : accs[i].UUID = uuid
  THEN CHOOSE i \in 1..Len(accs) :
         /\ accs[i].UUID = uuid
         /\ \A j \in 1..(i - 1) : accs[j].UUID # uuid
  ELSE 0

\* Map.prototype.set
MapSet(m, k, v) == [x \in DOMAIN m \cup {k} |-> IF x = k THEN v ELSE m[x]]
\* Map.prototype.delete
MapDelete(m, k) == [x \in DOMAIN m \ {k} |-> m[x]]

\* the restore branch without its accessoryHandlers.set
DiscoverOne_RestoreNoHandler(st, buttonName) ==
  LET uuid == generate(buttonName)
      i == FindAccessory(st.accessories, uuid)
  IN  IF i # 0
      THEN [st EXCEPT
              !.accessories = [st.accessories EXCEPT ![i].context = Some(buttonName)],
              !.updated = Append(st.updated, uuid),
              !.constructed = Append(st.constructed, uuid)]
      ELSE [st EXCEPT
              !.constructed = Append(st.constructed, uuid),
              !.handlers = MapSet(st.handlers, uuid, NewHandler(uuid)),
              !.registered = Append(st.registered, uuid)]

\* the body of the for loop over this.buttons, for one buttonName
DiscoverOne(st, buttonName) ==
  LET uuid == generate(buttonName)
      i == FindAccessory(st.accessories, uuid)
  IN  IF i # 0
      THEN [st EXCEPT
              !.accessories = [st.accessories EXCEPT ![i].context = Some(buttonName)],
              !.updated = Append(st.updated, uuid),
              !.constructed = Append(st.constructed, uuid),
              !.handlers = MapSet(st.handlers, uuid, NewHandler(uuid))]
      ELSE [st EXCEPT
              !.constructed = Append(st.constructed, uuid),
              !.handlers = MapSet(st.handlers, uuid, NewHandler(uuid)),
              !.registered = Append(st.registered, uuid)]

RECURSIVE DiscoverLoop(_, _)
DiscoverLoop(st, names) ==
  IF names = <<>> THEN st
  ELSE DiscoverLoop(DiscoverOne(st, Head(names)), Tail(names))

\* this.buttons.map(name => uuid.generate(name))
ConfiguredUUIDs(names) == {generate(names[i]) : i \in 1..Len(names)}

\* the filter without its negation
AccessoriesToRemove_NotNegated(accs, names) ==
  SelectSeq(accs, LAMBDA a : a.UUID \in ConfiguredUUIDs(names))

\* this.accessories.filter(accessory => !configuredUUIDs.includes(accessory.UUID))
AccessoriesToRemove(accs, names) ==
  SelectSeq(accs, LAMBDA a : a.UUID \notin ConfiguredUUIDs(names))

RECURSIVE RemoveLoop(_, _)
RemoveLoop(st, toRemove) ==
  IF toRemove = <<>> THEN st
  ELSE RemoveLoop([st EXCEPT
                     !.handlers = MapDelete(st.handlers, Head(toRemove).UUID),
                     !.unregistered = Append(st.unregistered, Head(toRemove).UUID)],
                  Tail(toRemove))

\* discoverDevices(), from the platform's current accessories and handlers
discoverDevices(accs, handlers, names) ==
  LET start == [accessories |-> accs, handlers |-> handlers, registered |-> <<>>,
                updated |-> <<>>, unregistered |-> <<>>, constructed |-> <<>>]
      looped == DiscoverLoop(start, names)
  IN  RemoveLoop(looped, AccessoriesToRemove(looped.accessories, names))

EmptyMap == [x \in {} |-> NewHandler(x)]

Init ==
  /\ buttons \in ButtonLists
  /\ cached \in CachedLists
  /\ accessories = <<>>
  /\ accessoryHandlers = EmptyMap
  /\ pc = "loading"
  /\ runs = 0
  /\ registered = <<>>
  /\ updated = <<>>
  /\ unregistered = <<>>
  /\ constructed = <<>>
  /\ routes = <<>>
  /\ server = "none"
  /\ phase = "idle"
  /\ req = None
  /\ res = 0
  /\ calls = <<>>
  /\ sent = <<>>
  /\ pending = {}
  /\ serverErrors = <<>>

\* the framework hands over one persisted record (before didFinishLaunching)
ConfigureAccessory ==
  /\ pc = "loading"
  /\ cached # <<>>
  /\ accessories' = Append(accessories, Head(cached))
  /\ cached' = Tail(cached)
  /\ UNCHANGED <<buttons, accessoryHandlers, pc, runs, registered, updated,
                 unregistered, constructed, routes, server, serverErrors>>
  /\ UNCHANGED requestVars

RunDiscover ==
  LET done == discoverDevices(accessories, accessoryHandlers, buttons)
  IN  /\ accessories' = done.accessories
      /\ accessoryHandlers' = done.handlers
      /\ registered' = done.registered
      /\ updated' = done.updated
      /\ unregistered' = done.unregistered
      /\ constructed' = done.constructed
      /\ runs' = runs + 1

\* didFinishLaunching, first statement: this.discoverDevices()
DiscoverDevices ==
  /\ pc = "loading"
  /\ cached = <<>>
  /\ RunDiscover
  /\ pc' = "discovered"
  /\ UNCHANGED <<buttons, cached, routes, server, serverErrors>>
  /\ UNCHANGED requestVars

\* discoverDevices() called once more on the same platform object
DiscoverDevicesAgain ==
  /\ pc = "discovered"
  /\ runs < MaxRuns
  /\ RunDiscover
  /\ UNCHANGED <<buttons, cached, pc, routes, server, serverErrors>>
  /\ UNCHANGED requestVars

\* --------------------------------------------------------- JavaScript numbers
\* a number is an integer count of tenths; NaN is a value no arithmetic yields
NaN == -(1000 * 1000)
Tenths(n) == IF n = NaN THEN NaN ELSE 10 * n

\* Math.trunc: the integer part, toward zero
MathTrunc(x) ==
  IF x = NaN THEN NaN
  ELSE IF x >= 0 THEN x \div 10 ELSE -((-x) \div 10)

\* Math.min and Math.max of two numbers: NaN when either is NaN
MathMin(a, b) == IF a = NaN \/ b = NaN THEN NaN ELSE IF a <= b THEN a ELSE b
MathMax(a, b) == IF a = NaN \/ b = NaN THEN NaN ELSE IF a >= b THEN a ELSE b

\* a < b in JavaScript: false when either side is NaN
JsLess(a, b) == a # NaN /\ b # NaN /\ a < b

\* the string matches /^[-+]?[0-9]+$/
IsIntLiteral(str) ==
  LET signed == str # <<>> /\ Head(str) \in {"-", "+"}
      ds == IF signed THEN Tail(str) ELSE str
  IN  /\ ds # <<>>
      /\ \A i \in 1..Len(ds) : ds[i] \in Digits

RECURSIVE DigitsValue(_, _)
DigitsValue(ds, acc) ==
  IF ds = <<>> THEN acc
  ELSE DigitsValue(Tail(ds), 10 * acc + DigitVal(Head(ds)))

\* Number(str), in tenths, for the strings a header can carry here
ToNumber(str) ==
  IF str = <<>> THEN 0
  ELSE IF ~IsIntLiteral(str) THEN NaN
  ELSE IF Head(str) = "-" THEN -(10 * DigitsValue(Tail(str), 0))
  ELSE IF Head(str) = "+" THEN 10 * DigitsValue(Tail(str), 0)
  ELSE 10 * DigitsValue(str, 0)

\* validator.js isInt(str, { min, max })
isInt(str, min, max) ==
  /\ IsIntLiteral(str)
  /\ ToNumber(str) >= Tenths(min)
  /\ ToNumber(str) <= Tenths(max)

\* --------------------------------------------------------------- the handle
SINGLE_PRESS == "SINGLE_PRESS"
DOUBLE_PRESS == "DOUBLE_PRESS"
LONG_PRESS == "LONG_PRESS"
Unknown == "Unknown"

\* a switch that compares without regard to case
Classify_IgnoreCase(eventType) ==
  CASE eventType \in {"click", "single-press", "Click"} -> SINGLE_PRESS
    [] eventType \in {"double-click", "double-press"} -> DOUBLE_PRESS
    [] eventType \in {"hold", "long-press"} -> LONG_PRESS
    [] OTHER -> Unknown

\* the switch statement of triggerEvent
Classify(eventType) ==
  CASE eventType \in {"click", "single-press"} -> SINGLE_PRESS
    [] eventType \in {"double-click", "double-press"} -> DOUBLE_PRESS
    [] eventType \in {"hold", "long-press"} -> LONG_PRESS
    [] OTHER -> Unknown

\* Math.max(0, Math.min(100, Math.trunc(level)))
ClampLevel_NoUpperClamp(level) == MathMax(ClampMin, MathTrunc(level))

ClampLevel(level) == MathMax(ClampMin, MathMin(ClampMax, MathTrunc(level)))

\* batteryLevel < 15
IsLowBattery(batteryLevel) == JsLess(batteryLevel, LowBatteryThreshold)

\* updateBattery that writes the characteristics and forgets this.batteryLevel
updateBattery_PushOnly(h, level) ==
  LET batteryLevel == ClampLevel(level)
  IN  [h EXCEPT !.pushedLevel = Some(batteryLevel),
                !.pushedLow = Some(IsLowBattery(batteryLevel))]

\* updateBattery(level) on handle h
updateBattery(h, level) ==
  LET batteryLevel == ClampLevel(level)
  IN  [h EXCEPT !.batteryLevel = batteryLevel,
                !.pushedLevel = Some(batteryLevel),
                !.pushedLow = Some(IsLowBattery(batteryLevel))]

\* triggerEvent that classifies before it updates the battery
triggerEvent_ClassifyFirst(h, eventType, batteryLevel) ==
  LET event == Classify(eventType)
      h1 == IF IsSome(batteryLevel) THEN updateBattery(h, Get(batteryLevel)) ELSE h
  IN  IF event = Unknown THEN [handler |-> h, sent |-> <<>>]
      ELSE [handler |-> h1, sent |-> <<[UUID |-> h.UUID, event |-> event]>>]

\* triggerEvent(eventType, batteryLevel?) on handle h: the handle afterwards
\* and the notifications sent
triggerEvent(h, eventType, batteryLevel) ==
  LET h1 == IF IsSome(batteryLevel) THEN updateBattery(h, Get(batteryLevel)) ELSE h
      event == Classify(eventType)
  IN  [handler |-> h1,
       sent |-> IF event = Unknown THEN <<>>
                ELSE <<[UUID |-> h.UUID, event |-> event]>>]

handleBatteryLevelGet(h) == h.batteryLevel
handleStatusLowBatteryGet(h) == JsLess(h.batteryLevel, ReadLowBatteryThreshold)

\* --------------------------------------------------------------- the router
validEvents == {"click", "double-click", "hold", "single-press", "double-press", "long-press"}

\* one chain of oneOf: <source>('event').isIn(validEvents)
EventIsIn(source) == IsSome(source) /\ Get(source) \in validEvents

\* oneOf([query, body, header]): some chain passes
OneOfPasses(r) == EventIsIn(r.query) \/ EventIsIn(r.body) \/ EventIsIn(r.header)

\* header('button-battery-level').optional().isInt({ min: 0, max: 100 })
BatteryHeaderPasses(r) ==
  IsSome(r.battery) => isInt(Get(r.battery), HeaderMin, HeaderMax)

\* the battery header chain left out of the route
ValidationPasses_EventOnly(r) == OneOfPasses(r)

\* validationResult(req).isEmpty()
ValidationPasses(r) == OneOfPasses(r) /\ BatteryHeaderPasses(r)

\* req.query?.event ?? req.body?.event ?? req.headers?.event
SelectEvent(r) ==
  IF IsSome(r.query) THEN r.query
  ELSE IF IsSome(r.body) THEN r.body
  ELSE r.header

\* batteryLevel ? Number(batteryLevel) : undefined
BatteryArgument(r) ==
  IF IsSome(r.battery) /\ Get(r.battery) # <<>> THEN Some(ToNumber(Get(r.battery)))
  ELSE None

\* a route handler whose handles share one battery state
RouteHandler_SharedBattery(buttonName, r, accs, handlers) ==
  LET uuid == generate(buttonName)
      quiet == [status |-> 0, handlers |-> handlers, calls |-> <<>>, sent |-> <<>>]
  IN  IF ~ValidationPasses(r) THEN [quiet EXCEPT !.status = 422]
      ELSE IF FindAccessory(accs, uuid) = 0 THEN [quiet EXCEPT !.status = 404]
      ELSE IF uuid \notin DOMAIN handlers THEN [quiet EXCEPT !.status = 500]
      ELSE LET event == Get(SelectEvent(r))
               level == BatteryArgument(r)
               out == triggerEvent(handlers[uuid], event, level)
           IN  [status |-> 200,
                handlers |-> [u \in DOMAIN handlers |->
                                [out.handler EXCEPT !.UUID = u]],
                calls |-> <<[UUID |-> uuid, eventType |-> event, batteryLevel |-> level]>>,
                sent |-> out.sent]

\* the route handler registered for buttonName, run on request r
RouteHandler(buttonName, r, accs, handlers) ==
  LET uuid == generate(buttonName)
      quiet == [status |-> 0, handlers |-> handlers, calls |-> <<>>, sent |-> <<>>]
  IN  IF ~ValidationPasses(r) THEN [quiet EXCEPT !.status = 422]
      ELSE IF FindAccessory(accs, uuid) = 0 THEN [quiet EXCEPT !.status = 404]
      ELSE IF uuid \notin DOMAIN handlers THEN [quiet EXCEPT !.status = 500]
      ELSE LET event == Get(SelectEvent(r))
               level == BatteryArgument(r)
               out == triggerEvent(handlers[uuid], event, level)
           IN  [status |-> 200,
                handlers |-> [handlers EXCEPT ![uuid] = out.handler],
                calls |-> <<[UUID |-> uuid, eventType |-> event, batteryLevel |-> level]>>,
                sent |-> out.sent]

\* a route table whose first route answers every path
MatchRoute_CatchAll(rts, path) == IF rts # <<>> THEN 1 ELSE 0

\* index of the first route registered for the path, 0 when none matches
MatchRoute(rts, path) ==
  IF \E i \in 1..Len(rts) : rts[i].uri = path
  THEN CHOOSE i \in 1..Len(rts) :
         /\ rts[i].uri = path
         /\ \A j \in 1..(i - 1) : rts[j].uri # path
  ELSE 0

\* the express app on request r: the first matching route answers, the 404
\* handler answers when none matches
Dispatch(r, rts, accs, handlers) ==
  LET i == MatchRoute(rts, r.path)
  IN  IF i = 0
      THEN [status |-> 404, handlers |-> handlers, calls |-> <<>>, sent |-> <<>>]
      ELSE RouteHandler(rts[i].buttonName, r, accs, handlers)

\* ------------------------------------------------------------- the requests
UnknownPath == <<UriPrefix, "z">>
Paths == {generateButtonUri(n) : n \in Names} \cup {UnknownPath}
QueryValues ==
  {None, Some("click"), Some("double-click"), Some("hold"), Some("single-press"),
   Some("Click")}
BodyValues == {None, Some("double-press"), Some("bogus")}
HeaderValues == {None, Some("long-press")}
BatteryValues ==
  {None, Some(<<>>), Some(<<"0">>), Some(<<"1", "4">>), Some(<<"1", "5">>),
   Some(<<"1", "0", "0">>), Some(<<"1", "0", "1">>)}

Requests ==
  [path : Paths, query : QueryValues, body : BodyValues, header : HeaderValues,
   battery : BatteryValues]

\* didFinishLaunching, second statement: this.setupExpressServer()
SetupExpressServer ==
  /\ pc = "discovered"
  /\ routes' = [i \in 1..Len(buttons) |->
                  [uri |-> generateButtonUri(buttons[i]), buttonName |-> buttons[i]]]
  /\ pc' = "routed"
  /\ UNCHANGED <<buttons, cached, accessories, accessoryHandlers, runs, registered,
                 updated, unregistered, constructed, server, serverErrors>>
  /\ UNCHANGED requestVars

\* startServer() called before setupExpressServer()
StartServer_BeforeRoutes ==
  /\ pc = "discovered"
  /\ server' = "binding"
  /\ pc' = "started"
  /\ UNCHANGED serverErrors
  /\ UNCHANGED <<buttons, cached, accessories, accessoryHandlers, runs, registered,
                 updated, unregistered, constructed, routes>>
  /\ UNCHANGED requestVars

\* didFinishLaunching, third statement: this.startServer()
StartServer ==
  /\ pc = "routed"
  /\ server' = "binding"
  /\ pc' = "started"
  /\ UNCHANGED serverErrors
  /\ UNCHANGED <<buttons, cached, accessories, accessoryHandlers, runs, registered,
                 updated, unregistered, constructed, routes>>
  /\ UNCHANGED requestVars

\* the callback of app.listen: the port is bound
Listening ==
  /\ server = "binding"
  /\ server' = "listening"
  /\ UNCHANGED platformVars
  /\ UNCHANGED <<routes, serverErrors>>
  /\ UNCHANGED requestVars

\* the listening server hands one request to the express app
Receive ==
  /\ server = "listening"
  /\ phase = "idle"
  /\ \E r \in Requests : req' = Some(r)
  /\ phase' = "received"
  /\ UNCHANGED <<res, calls, sent, pending>>
  /\ UNCHANGED platformVars
  /\ UNCHANGED <<routes, server, serverErrors>>

\* the express app runs its middleware on the request
HandleRequest ==
  /\ phase = "received"
  /\ LET out == Dispatch(Get(req), routes, accessories, accessoryHandlers)
     IN  /\ res' = out.status
         /\ accessoryHandlers' = out.handlers
         /\ calls' = out.calls
         /\ sent' = out.sent
  /\ phase' = "responded"
  /\ UNCHANGED <<buttons, cached, accessories, pc, runs, registered, updated,
                 unregistered, constructed, routes, server, serverErrors, req,
                 pending>>

\* the response has gone out: the app is ready for the next request
SendResponse ==
  /\ phase = "responded"
  /\ phase' = "idle"
  /\ req' = None
  /\ res' = 0
  /\ calls' = <<>>
  /\ sent' = <<>>
  /\ UNCHANGED platformVars
  /\ UNCHANGED <<routes, server, serverErrors, pending>>

\* the port cannot be bound: the server emits 'error', the listener logs it
ServerError ==
  /\ server = "binding"
  /\ server' = "failed"
  /\ serverErrors' = Append(serverErrors, "HTTP server error:")
  /\ UNCHANGED platformVars
  /\ UNCHANGED routes
  /\ UNCHANGED requestVars

Next ==
  \/ ConfigureAccessory
  \/ DiscoverDevices
  \/ SetupExpressServer
  \/ StartServer
  \/ Listening
  \/ ServerError
  \/ Receive
  \/ HandleRequest
  \/ SendResponse

Spec == Init /\ [][Next]_vars

\* ------------------------------------------------- several requests in flight
\* requests to the two routes, each with a battery level
ConcurrentRequests ==
  [path : {generateButtonUri(<<"A">>), generateButtonUri(<<"B", "!">>)},
   query : {Some("click")}, body : {None}, header : {None},
   battery : {Some(<<"0">>), Some(<<"1", "5">>)}]

\* a request arrives while others still await their handler
Arrive ==
  /\ server = "listening"
  /\ Cardinality(pending) < MaxInflight
  /\ \E r \in ConcurrentRequests \ pending : pending' = pending \cup {r}
  /\ UNCHANGED <<phase, req, res, calls, sent>>
  /\ UNCHANGED platformVars
  /\ UNCHANGED <<routes, server, serverErrors>>

\* the express app runs its middleware on the pending request r
HandlePendingOf(r) ==
  /\ phase = "idle"
  /\ r \in pending
  /\ \E out \in {Dispatch(r, routes, accessories, accessoryHandlers)} :
       /\ res' = out.status
       /\ accessoryHandlers' = out.handlers
       /\ calls' = out.calls
       /\ sent' = out.sent
  /\ req' = Some(r)
  /\ pending' = pending \ {r}
  /\ phase' = "responded"
  /\ UNCHANGED <<buttons, cached, accessories, pc, runs, registered, updated,
                 unregistered, constructed, routes, server, serverErrors>>

\* the event loop runs the handler of any one pending request
HandlePending == \E r \in pending : HandlePendingOf(r)

NextConcurrent ==
  \/ ConfigureAccessory
  \/ DiscoverDevices
  \/ SetupExpressServer
  \/ StartServer
  \/ Listening
  \/ Arrive
  \/ HandlePending
  \/ SendResponse

\* every name has a persisted record, so every configured device is restored
InitConcurrent ==
  /\ Init
  /\ \A n \in Names : \E i \in 1..Len(cached) : cached[i].UUID = generate(n)

SpecConcurrent == InitConcurrent /\ [][NextConcurrent]_vars

\* discoverDevices called directly and repeatedly on one platform object
NextTwice ==
  \/ ConfigureAccessory
  \/ DiscoverDevices
  \/ DiscoverDevicesAgain

SpecTwice == Init /\ [][NextTwice]_vars

\* ---------------------------------------------- the handle, called directly
\* arguments of a direct call: event tokens, and raw levels in tenths
DirectEvents == validEvents \cup {"Click", "bogus", ""}
DirectLevels ==
  {None, Some(-50), Some(-5), Some(0), Some(140), Some(149), Some(150),
   Some(1000), Some(1500)}

\* triggerEvent(eventType, batteryLevel?) called on one handle of the index
CallTriggerEvent ==
  /\ pc = "discovered"
  /\ phase = "idle"
  /\ \E u \in DOMAIN accessoryHandlers, e \in DirectEvents, l \in DirectLevels :
       LET out == triggerEvent(accessoryHandlers[u], e, l)
       IN  /\ accessoryHandlers' = [accessoryHandlers EXCEPT ![u] = out.handler]
           /\ calls' = <<[UUID |-> u, eventType |-> e, batteryLevel |-> l]>>
           /\ sent' = out.sent
  /\ phase' = "called"
  /\ UNCHANGED <<buttons, cached, accessories, pc, runs, registered, updated,
                 unregistered, constructed, routes, server, serverErrors, req, res,
                 pending>>

\* the direct call has returned to its caller
ReturnFromCall ==
  /\ phase = "called"
  /\ phase' = "idle"
  /\ calls' = <<>>
  /\ sent' = <<>>
  /\ UNCHANGED platformVars
  /\ UNCHANGED <<routes, server, serverErrors, req, res, pending>>

NextHandle ==
  \/ ConfigureAccessory
  \/ DiscoverDevices
  \/ CallTriggerEvent
  \/ ReturnFromCall

SpecHandle == Init /\ [][NextHandle]_vars

\* ------------------------------------------------------ vocabulary of claims
Range(seq) == {seq[i] : i \in 1..Len(seq)}
PersistedUUIDs == {accessories[i].UUID : i \in 1..Len(accessories)}
ConfiguredIds == {generate(n) : n \in Range(buttons)}
Reconciled == pc # "loading"

\* the request being dispatched, and the route the express app runs for it
TheRequest == Get(req)
RouteOf(r) == MatchRoute(routes, r.path)
Responded == phase = "responded"
RespondedOnRoute == Responded /\ RouteOf(TheRequest) # 0
TargetName == routes[RouteOf(TheRequest)].buttonName
TargetId == generate(TargetName)

\* C1: after discoverDevices, a request that passes validation on the route of
\* a configured device, restored or newly added, is never answered 404:
\* triggerEvent is invoked exactly once on that device's handle and the
\* answer is 200.
C1_ValidRequestTriggers ==
  (RespondedOnRoute /\ ValidationPasses(TheRequest)) =>
    /\ res = 200
    /\ Len(calls) = 1
    /\ calls[1].UUID = TargetId

\* C2: one run of discoverDevices restores exactly the identities that are both
\* persisted and configured (context refreshed, updatePlatformAccessories, not
\* registered), adds exactly the configured ones that are not persisted
\* (registerPlatformAccessories) and removes exactly the persisted ones that are
\* not configured (unregisterPlatformAccessories).
C2_ReconcileSets ==
  Reconciled =>
    /\ Range(updated) = PersistedUUIDs \cap ConfiguredIds
    /\ Range(registered) = ConfiguredIds \ PersistedUUIDs
    /\ Range(unregistered) = PersistedUUIDs \ ConfiguredIds
    /\ Range(updated) \cap Range(registered) = {}
    /\ \A i \in 1..Len(accessories) :
         accessories[i].UUID \in ConfiguredIds =>
           /\ IsSome(accessories[i].context)
           /\ generate(Get(accessories[i].context)) = accessories[i].UUID
           /\ Get(accessories[i].context) \in Range(buttons)

\* the example of C2: persisted {A, a}, configured <<a, B!>>
C2_Witness ==
  /\ pc = "discovered"
  /\ updated = <<generate(<<"a">>)>>
  /\ registered = <<generate(<<"B", "!">>)>>
  /\ unregistered = <<generate(<<"A">>)>>

\* C3: after discoverDevices the handle index holds exactly one entry per
\* configured identity, each the handle of that identity, and no entry for an
\* identity whose name is not configured.
C3_IndexIsConfigured ==
  Reconciled =>
    /\ DOMAIN accessoryHandlers = ConfiguredIds
    /\ \A u \in DOMAIN accessoryHandlers : accessoryHandlers[u].UUID = u
    /\ Cardinality(DOMAIN accessoryHandlers) = Cardinality(Range(buttons))

\* a run that restored one device, added another and removed a third
C3_Witness ==
  /\ Reconciled
  /\ Cardinality(DOMAIN accessoryHandlers) = 2
  /\ updated # <<>>
  /\ registered # <<>>
  /\ unregistered # <<>>

\* C4: a second run of discoverDevices with the same configured names
\* registers nothing, unregisters nothing and leaves the set of identities in
\* the handle index as the first run left it.
C4_SecondRunIdle ==
  runs >= 2 =>
    /\ registered = <<>>
    /\ unregistered = <<>>
    /\ DOMAIN accessoryHandlers = ConfiguredIds

\* the six tokens the interface accepts, and the press kind of each
AcceptedTokens ==
  {"click", "double-click", "hold", "single-press", "double-press", "long-press"}
KindOf(token) ==
  IF token \in {"click", "single-press"} THEN "SINGLE_PRESS"
  ELSE IF token \in {"double-click", "double-press"} THEN "DOUBLE_PRESS"
  ELSE "LONG_PRESS"

\* the decimal numeral of a natural number
RECURSIVE Decimal(_)
Decimal(n) ==
  IF n < 10 THEN <<DigitChars[n + 1]>>
  ELSE Append(Decimal(n \div 10), DigitChars[(n % 10) + 1])

\* the header is the numeral of an integer in 0..100
IsLevelNumeral(str) == \E n \in 0..100 : Decimal(n) = str
LevelOfNumeral(str) == CHOOSE n \in 0..100 : Decimal(n) = str

\* the first source, in the order query, body, header, that carries an event
FirstPresentEvent(r) ==
  IF r.query # None THEN r.query ELSE IF r.body # None THEN r.body ELSE r.header
NoAcceptedEvent(r) ==
  \A source \in {r.query, r.body, r.header} :
    source = None \/ Get(source) \notin AcceptedTokens
BadBatteryHeader(r) == r.battery # None /\ ~IsLevelNumeral(Get(r.battery))

\* the step in which the express app handles the request
Handling == phase = "received" /\ phase' = "responded"
HandlingOnRoute == Handling /\ RouteOf(TheRequest) # 0

\* C5: a request on a configured device's route that fails validation (no
\* accepted event token in any source, or a button-battery-level header that
\* is not an integer in 0..100) is answered 422 and changes nothing: no
\* handle's battery state changes and no press notification is sent.
C5_InvalidChangesNothing ==
  [][(HandlingOnRoute /\ (NoAcceptedEvent(TheRequest) \/ BadBatteryHeader(TheRequest))) =>
       /\ res' = 422
       /\ accessoryHandlers' = accessoryHandlers
       /\ calls' = <<>>
       /\ sent' = <<>>]_vars

\* a valid event with a battery header out of range, sent to a restored device
\* whose battery had been updated before, answered 422
C5_Witness ==
  /\ RespondedOnRoute
  /\ res = 422
  /\ TheRequest.query = Some("click")
  /\ TheRequest.battery = Some(<<"1", "0", "1">>)
  /\ TargetId \in DOMAIN accessoryHandlers
  /\ accessoryHandlers[TargetId].pushedLevel = Some(14)

\* C6: the first source (query, body, header) that carries an event value is
\* authoritative: when its token is not one of the six accepted tokens the
\* request is answered 422, whatever the later sources carry.
C6_FirstSourceAuthoritative ==
  (/\ RespondedOnRoute
   /\ FirstPresentEvent(TheRequest) # None
   /\ Get(FirstPresentEvent(TheRequest)) \notin AcceptedTokens)
  => res = 422

\* C7: a request to a configured device whose event is an accepted token and
\* whose button-battery-level header is an integer b in 0..100 sets the
\* device's battery level to b, its low-battery status to b < 15, and sends
\* exactly one press notification of the token's kind.
C7_BatteryAndPress ==
  (/\ RespondedOnRoute
   /\ FirstPresentEvent(TheRequest) # None
   /\ Get(FirstPresentEvent(TheRequest)) \in AcceptedTokens
   /\ TheRequest.battery # None
   /\ IsLevelNumeral(Get(TheRequest.battery)))
  => LET b == LevelOfNumeral(Get(TheRequest.battery))
         h == accessoryHandlers[TargetId]
     IN  /\ TargetId \in DOMAIN accessoryHandlers
         /\ handleBatteryLevelGet(h) = b
         /\ handleStatusLowBatteryGet(h) = (b < 15)
         /\ h.pushedLevel = Some(b)
         /\ h.pushedLow = Some(b < 15)
         /\ sent = <<[UUID |-> TargetId,
                      event |-> KindOf(Get(FirstPresentEvent(TheRequest)))]>>

\* the same effects, for the requests the router answers 200
C7_BatteryAndPressWhenServed ==
  (/\ RespondedOnRoute
   /\ res = 200
   /\ Get(FirstPresentEvent(TheRequest)) \in AcceptedTokens
   /\ TheRequest.battery # None)
  => LET b == LevelOfNumeral(Get(TheRequest.battery))
         h == accessoryHandlers[TargetId]
     IN  /\ IsLevelNumeral(Get(TheRequest.battery))
         /\ handleBatteryLevelGet(h) = b
         /\ handleStatusLowBatteryGet(h) = (b < 15)
         /\ h.pushedLevel = Some(b)
         /\ h.pushedLow = Some(b < 15)
         /\ sent = <<[UUID |-> TargetId,
                      event |-> KindOf(Get(FirstPresentEvent(TheRequest)))]>>

\* C8: a request to a configured device with an accepted event token and no
\* button-battery-level header sends exactly one press notification of the
\* token's kind and leaves the battery level and low-battery status as they
\* were.
C8_PressOnly ==
  [][(/\ HandlingOnRoute
      /\ FirstPresentEvent(TheRequest) # None
      /\ Get(FirstPresentEvent(TheRequest)) \in AcceptedTokens
      /\ TheRequest.battery = None)
     => /\ sent' = <<[UUID |-> TargetId,
                      event |-> KindOf(Get(FirstPresentEvent(TheRequest)))]>>
        /\ accessoryHandlers' = accessoryHandlers]_vars

\* the same effects, for the requests the router answers 200
C8_PressOnlyWhenServed ==
  [][(/\ HandlingOnRoute
      /\ res' = 200
      /\ Get(FirstPresentEvent(TheRequest)) \in AcceptedTokens
      /\ TheRequest.battery = None)
     => /\ sent' = <<[UUID |-> TargetId,
                      event |-> KindOf(Get(FirstPresentEvent(TheRequest)))]>>
        /\ accessoryHandlers' = accessoryHandlers]_vars

\* C9: a request whose path is the route of no configured device is answered
\* 404 and changes no device: no battery state changes, triggerEvent is not
\* invoked and no press notification is sent, whatever the request carries.
C9_UnknownPathChangesNothing ==
  [][(Handling /\ \A n \in Range(buttons) : generateButtonUri(n) # TheRequest.path) =>
       /\ res' = 404
       /\ accessoryHandlers' = accessoryHandlers
       /\ calls' = <<>>
       /\ sent' = <<>>]_vars

\* a request that would pass validation, on the path of no device, answered 404
\* while a configured device holds an updated battery level
C9_Witness ==
  /\ Responded
  /\ res = 404
  /\ TheRequest.path = UnknownPath
  /\ TheRequest.query = Some("hold")
  /\ TheRequest.battery = Some(<<"0">>)
  /\ \E u \in DOMAIN accessoryHandlers : accessoryHandlers[u].pushedLevel = Some(15)

\* the level a raw number (in tenths) must be stored as: its integer part,
\* brought into 0..100
ExpectedLevel(x) ==
  IF x < 10 THEN 0
  ELSE IF x >= 1000 THEN 100
  ELSE CHOOSE l \in 0..100 : 10 * l <= x /\ x < 10 * (l + 1)

\* C10: updateBattery stores the raw level truncated toward zero and clamped
\* into 0..100, low battery is reported exactly when the stored level is below
\* 15 (-5 -> 0 low, 0 -> 0 low, 14 -> 14 low, 15 -> 15 normal, 100 -> 100,
\* 150 -> 100), and every handle's stored level is an integer in 0..100 in
\* every state.
C10_ClampedLevel ==
  /\ \A u \in DOMAIN accessoryHandlers : accessoryHandlers[u].batteryLevel \in 0..100
  /\ (phase = "called" /\ calls[1].batteryLevel # None) =>
       LET x == Get(calls[1].batteryLevel)
           h == accessoryHandlers[calls[1].UUID]
       IN  /\ h.batteryLevel = ExpectedLevel(x)
           /\ h.pushedLevel = Some(ExpectedLevel(x))
           /\ h.pushedLow = Some(ExpectedLevel(x) < 15)
           /\ handleStatusLowBatteryGet(h) = (ExpectedLevel(x) < 15)
           /\ x = -50 => (h.batteryLevel = 0 /\ h.pushedLow = Some(TRUE))
           /\ x = 0 => (h.batteryLevel = 0 /\ h.pushedLow = Some(TRUE))
           /\ x = 140 => (h.batteryLevel = 14 /\ h.pushedLow = Some(TRUE))
           /\ x = 150 => (h.batteryLevel = 15 /\ h.pushedLow = Some(FALSE))
           /\ x = 1000 => (h.batteryLevel = 100 /\ h.pushedLow = Some(FALSE))
           /\ x = 1500 => (h.batteryLevel = 100 /\ h.pushedLow = Some(FALSE))

\* updateBattery(150): stored and pushed as 100, not low
C10_Witness ==
  /\ phase = "called"
  /\ calls[1].batteryLevel = Some(1500)
  /\ accessoryHandlers[calls[1].UUID].batteryLevel = 100
  /\ accessoryHandlers[calls[1].UUID].pushedLow = Some(FALSE)

\* the step in which triggerEvent is called directly, and its arguments
Calling == phase = "idle" /\ phase' = "called"
Called == phase = "called"

\* C11: classification is a total, case-sensitive, exact-match mapping: click
\* and single-press give single-press, double-click and double-press give
\* double-press, hold and long-press give long-press, every other token gives
\* Unknown; each of the six tokens of the router's allow-list gets a press kind.
C11_Classification ==
  /\ validEvents = AcceptedTokens
  /\ \A t \in validEvents : Classify(t) # Unknown
  /\ Called =>
       LET t == calls[1].eventType
       IN  IF t \in AcceptedTokens
           THEN /\ Classify(t) = KindOf(t)
                /\ sent = <<[UUID |-> calls[1].UUID, event |-> KindOf(t)]>>
           ELSE /\ Classify(t) = "Unknown"
                /\ sent = <<>>

\* a token that differs from an accepted one only in case is Unknown
C11_Witness ==
  /\ Called
  /\ calls[1].eventType = "Click"
  /\ sent = <<>>

\* C12: every request answered 200 passed triggerEvent one of the six accepted
\* tokens, so each 200 stands for exactly one press notification sent.
C12_ServedMeansNotified ==
  (Responded /\ res = 200) =>
    /\ Len(calls) = 1
    /\ calls[1].eventType \in AcceptedTokens
    /\ Len(sent) = 1

\* C13: triggerEvent with a token that classifies to Unknown sends no press
\* notification; with a battery level present the battery update still applies
\* (stored level, pushed level and pushed low-battery status take the clamped
\* value), with none present nothing changes.
C13_UnknownStillUpdatesBattery ==
  [][(Calling /\ calls'[1].eventType \notin AcceptedTokens) =>
       LET c == calls'[1]
           after == accessoryHandlers'[c.UUID]
       IN  /\ sent' = <<>>
           /\ DOMAIN accessoryHandlers' = DOMAIN accessoryHandlers
           /\ \A u \in DOMAIN accessoryHandlers \ {c.UUID} :
                accessoryHandlers'[u] = accessoryHandlers[u]
           /\ IF c.batteryLevel = None
              THEN after = accessoryHandlers[c.UUID]
              ELSE LET l == ExpectedLevel(Get(c.batteryLevel))
                   IN  /\ after.batteryLevel = l
                       /\ after.pushedLevel = Some(l)
                       /\ after.pushedLow = Some(l < 15)]_vars

\* an Unknown token with level 14: the level is stored, nothing is sent
C13_Witness ==
  /\ Called
  /\ calls[1].eventType = "bogus"
  /\ calls[1].batteryLevel = Some(140)
  /\ accessoryHandlers[calls[1].UUID].batteryLevel = 14
  /\ accessoryHandlers[calls[1].UUID].pushedLow = Some(TRUE)
  /\ sent = <<>>

\* the identity a request is routed to, None when no route matches its path
RoutedId(r) ==
  IF RouteOf(r) = 0 THEN None ELSE Some(generate(routes[RouteOf(r)].buttonName))
HandlingPending == phase = "idle" /\ phase' = "responded"

\* C14: requests to different devices are independent under every
\* interleaving: handling a request changes no battery state and sends no
\* notification of any device but the one it is routed to, leaves the other
\* pending requests pending, and every pending request can be handled as soon
\* as the event loop is idle, whatever else is pending.
C14_DevicesIndependent ==
  /\ []((server = "listening" /\ phase = "idle") =>
          \A r \in pending : ENABLED HandlePendingOf(r))
  /\ [][HandlingPending =>
          LET r == Get(req')
          IN  /\ pending' = pending \ {r}
              /\ DOMAIN accessoryHandlers' = DOMAIN accessoryHandlers
              /\ \A u \in DOMAIN accessoryHandlers :
                   RoutedId(r) # Some(u) =>
                     /\ accessoryHandlers'[u] = accessoryHandlers[u]
                     /\ \A k \in 1..Len(sent') : sent'[k].UUID # u]_vars

\* a request for one device answered 200 while a request for another device,
\* whose battery was updated earlier, is still pending
C14_Witness ==
  /\ RespondedOnRoute
  /\ res = 200
  /\ accessoryHandlers[TargetId].pushedLevel = Some(15)
  /\ \E r \in pending :
       /\ RouteOf(r) # 0
       /\ RoutedId(r) # Some(TargetId)
       /\ Get(RoutedId(r)) \in DOMAIN accessoryHandlers
       /\ accessoryHandlers[Get(RoutedId(r))].pushedLevel = Some(0)

\* C15: the pull-based reads agree with the handle's battery state and with
\* what was last pushed: before any update handleBatteryLevelGet gives 100 and
\* handleStatusLowBatteryGet gives normal; after an update the level read is the
\* clamped level last applied, low is read exactly when it is below 15, and the
\* last pushed level and low-battery status equal the values read.
C15_ReadsAgree ==
  /\ \A u \in DOMAIN accessoryHandlers :
       LET h == accessoryHandlers[u]
       IN  /\ (h.pushedLevel = None) <=> (h.pushedLow = None)
           /\ handleStatusLowBatteryGet(h) = (handleBatteryLevelGet(h) < 15)
           /\ h.pushedLevel = None =>
                /\ handleBatteryLevelGet(h) = 100
                /\ handleStatusLowBatteryGet(h) = FALSE
           /\ h.pushedLevel # None =>
                /\ h.pushedLevel = Some(handleBatteryLevelGet(h))
                /\ h.pushedLow = Some(handleStatusLowBatteryGet(h))
  /\ (Responded /\ res = 200 /\ calls[1].batteryLevel # None) =>
       handleBatteryLevelGet(accessoryHandlers[calls[1].UUID])
         = ExpectedLevel(Get(calls[1].batteryLevel))

\* a device just updated to 14 beside a device that was never updated
C15_Witness ==
  /\ Responded
  /\ res = 200
  /\ calls[1].batteryLevel = Some(140)
  /\ accessoryHandlers[calls[1].UUID].pushedLow = Some(TRUE)
  /\ \E u \in DOMAIN accessoryHandlers : accessoryHandlers[u].pushedLevel = None

\* C16: on didFinishLaunching discoverDevices completes first, then all routes
\* are registered, then the listener starts; no request is handled before
\* discoverDevices has finished, and once the listener accepts requests neither
\* the handle index nor the route table changes.
C16_StartupOrder ==
  /\ [](/\ server # "none" =>
             (pc = "started" /\ runs = 1 /\ Len(routes) = Len(buttons))
        /\ routes # <<>> => runs = 1
        /\ (phase # "idle" \/ req # None) => (server = "listening" /\ runs = 1))
  /\ [][/\ server' # server /\ server = "none" =>
             (pc = "routed" /\ Len(routes) = Len(buttons))
        /\ routes' # routes => (pc = "discovered" /\ server = "none")
        /\ server = "listening" =>
             /\ routes' = routes
             /\ runs' = runs
             /\ DOMAIN accessoryHandlers' = DOMAIN accessoryHandlers
             /\ \A u \in DOMAIN accessoryHandlers : accessoryHandlers'[u].UUID = u]_vars

\* a request served on the listening server, over a non-empty route table
C16_Witness ==
  /\ RespondedOnRoute
  /\ res = 200
  /\ server = "listening"
  /\ Len(routes) = 2

NoDuplicates(seq) == \A i, j \in 1..Len(seq) : seq[i] = seq[j] => i = j

\* C17: within one run of discoverDevices each identity is announced as newly
\* registered at most once and gets at most one handle constructed, also when
\* a name occurs more than once in the configured list.
C17_RegisteredOnce ==
  Reconciled => (NoDuplicates(registered) /\ NoDuplicates(constructed))

\* the configured names that share the route path, in configuration order
NamesOnPath(path) ==
  SelectSeq(buttons, LAMBDA n : generateButtonUri(n) = path)
Collision(path) == Cardinality(Range(NamesOnPath(path))) > 1
ValidRequest(r) ==
  /\ FirstPresentEvent(r) # None
  /\ Get(FirstPresentEvent(r)) \in AcceptedTokens
  /\ ~BadBatteryHeader(r)

\* C18: when two distinct configured names share a route path, a valid request
\* to that path triggers exactly one device, the one configured first, and no
\* request ever triggers the one configured later.
C18_FirstNameTriggered ==
  (Responded /\ Collision(TheRequest.path)) =>
    LET first == generate(Head(NamesOnPath(TheRequest.path)))
    IN  /\ \A k \in 1..Len(calls) : calls[k].UUID = first
        /\ \A k \in 1..Len(sent) : sent[k].UUID = first
        /\ ValidRequest(TheRequest) => Len(calls) = 1

\* the part of C18 that does not depend on the first name being served: no
\* request triggers more than one device or a name configured later
C18_LaterNeverTriggered ==
  (Responded /\ Collision(TheRequest.path)) =>
    LET first == generate(Head(NamesOnPath(TheRequest.path)))
    IN  /\ Len(calls) <= 1
        /\ \A k \in 1..Len(calls) : calls[k].UUID = first
        /\ \A k \in 1..Len(sent) : sent[k].UUID = first

\* C19: a listener failure is fatal to the startup path and propagated to the
\* host framework; the platform never stays started with a failed listener.
C19_ListenerFailureFatal ==
  server = "failed" => pc # "started"

\* what the 'error' listener does instead: the failure is logged and absorbed,
\* the platform stays started with its index and routes, and serves no request
C19_ListenerFailureLogged ==
  server = "failed" =>
    /\ serverErrors = <<"HTTP server error:">>
    /\ pc = "started"
    /\ Len(routes) = Len(buttons)
    /\ DOMAIN accessoryHandlers = ConfiguredIds
    /\ phase = "idle"
    /\ req = None

====
